---- MODULE Spec2Model ----
(***************************************************************************)
(* Verification model of jiyong/ai-txt-tool.                               *)
(*                                                                         *)
(*  Spec         the Publication Coordinator: conversion workers of one    *)
(*               product code that write the product directory and then    *)
(*               run upload_to_oss (pdf_to_md.py, md_to_json_structure.py) *)
(*               over the shared store of task_manager.py and the          *)
(*               uploader of oss_uploader.py.  Every access to the shared  *)
(*               store, the clock or the product directory is one step.    *)
(*  SpecWait     wait_for_tasks_completion alone, for any timeout.         *)
(*  SpecOutline  the Outline Builder, extract_structure.                   *)
(*                                                                         *)
(*                                                                         *)
(* The workers are processes of the multi-process deployment: they share   *)
(* the Redis store and the ./data directory and nothing else.              *)
(* Time is counted in seconds; the clock advances in steps of TickSeconds. *)
(* The variables of the parts a specification does not run keep their      *)
(* initial values under it.                                                *)
(***************************************************************************)
EXTENDS Integers, Sequences, FiniteSets, TLC

\* ------------------------------------------------------------------ bounds
NumWorkers == 2
\* The days field of a timedelta is counted up to MaxElapsedDays and stays there.
MaxElapsedDays == 2
\* The longest input of the Outline Builder, in lines, and its deepest heading.
MaxLines == 4
MaxLevel == 3

Workers == 1 .. NumWorkers

\* ------------------------------------------------------- program constants
\* redis.set(key, "1", nx=True, ex=3600)
LOCK_EX == 3600
\* wait_for_tasks_completion(..., timeout: int = 3600)
DEFAULT_TIMEOUT == 3600
\* timedelta.seconds is the seconds field of the difference, 0 .. 86399
SECONDS_PER_DAY == 86400
\* pdf_to_md.LOCAL_MODE: False in the service, only main() --local sets it
LOCAL_MODE == FALSE

\* The step of the model's clock: every time constant is a multiple of it.
TickSeconds == LOCK_EX

\* ---------------------------------------------------------- task_manager
DOING == "doing"
SUCCESS == "success"
FAIL == "fail"

PDF == "pdf-to-md"
MDS == "md-to-json-structure"
EPUB == "epub-to-md"
\* "epub-to-md" is waited for by md_to_json_structure.upload_to_oss; no code of
\* the repository's sources writes its record, which stays not_found here.
TaskTypes == {PDF, MDS, EPUB}

\* The message of a status write, one name per message text of the code.
Messages == {"uploading", "no_product_dir", "wait_timeout",
             "upload_ok", "upload_failed", "exception"}

\* get_task_status: a missing hash reads as {"status": "not_found"}.
NotFound == [status |-> "not_found"]

\* The hash update_task_status writes.  Its fields message and updated_at are
\* read by no code: the store keeps the status, and each run keeps the
\* message of its own final write in `outcome`.
TaskRecord(status, message) == [status |-> status]

\* (a check that takes a missing record for a finished task)
IsTerminalOrMissing(rec) == rec.status \in {SUCCESS, FAIL, "not_found"}

\* check_all_tasks_completed: status in [SUCCESS, FAIL]
IsTerminal(rec) == rec.status \in {SUCCESS, FAIL}

\* (datetime.now() - start_time).seconds
TimedeltaSeconds(elapsed) == elapsed % SECONDS_PER_DAY

\* datetime.now() - start_time, TickSeconds later (the seconds field stays exact)
AdvanceElapsed(elapsed) ==
    IF elapsed + TickSeconds < MaxElapsedDays * SECONDS_PER_DAY
      THEN elapsed + TickSeconds
      ELSE elapsed + TickSeconds - SECONDS_PER_DAY

\* the condition of the while loop of wait_for_tasks_completion
WaitLoopCond(elapsed, timeout) == TimedeltaSeconds(elapsed) < timeout

\* the task types a publication run of type t waits for
WaitList(t) ==
    IF t = PDF THEN <<PDF, MDS>> ELSE <<EPUB, MDS>>

VARIABLES
    lockTtl,    \* seconds the key book-processor::<code>::file-lock has left; 0: absent
    task,       \* task type -> Task Record of book-processor::<code>::<type>
    dirExists,  \* the product directory ./data/<code> exists
    ossConfigured, \* the ALIYUN_OSS_* environment of the deployment is complete
    pc,         \* worker -> its position
    ttype,      \* worker -> task type of its conversion
    elapsed,    \* worker -> seconds since start_time of its wait
    idx,        \* worker -> index in the task list check_all_tasks_completed is at
    acquired,   \* worker -> what acquire_file_lock returned to this run
    success,    \* worker -> what upload_directory returned to this run
    lockKept,   \* worker -> its Lock failed and the key has been there ever since
    outcome,    \* worker -> the message of the final status write of its run
    timeout,    \* the timeout argument of wait_for_tasks_completion
    lines,      \* Outline Builder: self.lines
    pos,        \* Outline Builder: index of the line the for loop is at
    nodes,      \* Outline Builder: the nodes made so far, in the order made
    node_stack, \* Outline Builder: node_stack, as indices in nodes (0: root)
    current_content, \* Outline Builder: current_content
    rootContent,     \* Outline Builder: root["content"]
    opc,        \* Outline Builder: "off", "loop" or "returned"
    epub,       \* EPUB reader: the locals of one extract_content_from_epub call and its files
    pdfx,       \* PDF reader: the locals of one extract_content_from_pdf call and its files
    mdsx,       \* one process_markdown_structure call, its file and the task it creates
    hier        \* the other two outline builders, applied to the same headings

coordVars == <<lockTtl, task, dirExists, ossConfigured, pc, ttype, elapsed, idx, acquired,
               success, lockKept, outcome, timeout>>

outlineVars == <<lines, pos, nodes, node_stack, current_content, rootContent, opc>>

extractVars == <<epub, pdfx, mdsx, hier>>

vars == <<coordVars, outlineVars, extractVars>>

LockPresent == lockTtl > 0

\* The Outline Builder is not running.
OutlineOff ==
    /\ lines = <<>>
    /\ pos = 1
    /\ nodes = <<>>
    /\ node_stack = <<0>>
    /\ current_content = <<>>
    /\ rootContent = <<>>
    /\ opc = "off"

\* No extraction call is running.
ExtractOff ==
    /\ epub = [epc |-> "off"]
    /\ pdfx = [ppc |-> "off"]
    /\ mdsx = [mpc |-> "off"]
    /\ hier = [hpc |-> "off"]

Init ==
    /\ OutlineOff
    /\ ExtractOff
    /\ timeout = DEFAULT_TIMEOUT
    /\ lockTtl = 0
    /\ task = [t \in TaskTypes |-> NotFound]
    /\ dirExists = FALSE
    /\ ossConfigured \in BOOLEAN
    /\ pc = [w \in Workers |-> "idle"]
    /\ ttype = [w \in Workers |-> PDF]
    /\ elapsed = [w \in Workers |-> 0]
    /\ idx = [w \in Workers |-> 1]
    /\ acquired = [w \in Workers |-> "none"]
    /\ success = [w \in Workers |-> "none"]
    /\ lockKept = [w \in Workers |-> FALSE]
    /\ outcome = [w \in Workers |-> "none"]

\* ------------------------------------------------------- store primitives
\* update_task_status: redis.hmset(key, {status, message, updated_at})
update_task_status(t, status, message) ==
    task' = [task EXCEPT ![t] = TaskRecord(status, message)]

\* get_task_status: redis.hgetall(key), or {"status": "not_found"}
get_task_status(t) == task[t]

\* (a lock that always reports success)
acquire_file_lock_always == TRUE

\* acquire_file_lock: bool(redis.set(key, "1", nx=True, ex=3600)): what it returns
acquire_file_lock_result == ~LockPresent

\* acquire_file_lock: the key after the call (set with its expiry only if absent)
acquire_file_lock_ttl == IF LockPresent THEN lockTtl ELSE LOCK_EX

\* (a release that leaves the key alone)
release_file_lock_noop == lockTtl

\* release_file_lock: redis.delete(key), unconditional
release_file_lock_ttl == 0

\* A returned bool as the worker keeps it ("none": nothing returned yet).
Returned_(b) == IF b THEN "true" ELSE "false"

\* The worker's local state on its way to position p.
Goto(w, p) == pc' = [pc EXCEPT ![w] = p]

\* ----------------------------------------------------------- conversions
\* extract_content_from_pdf(save=True): the output directories are made first,
\* then the page images and the Markdown file are written.
\* process_markdown_structure(save=True): the structure is extracted and the
\* publication task is created, the JSON file is written last.
ConvBegin(w, t) ==
    /\ pc[w] = "idle"
    /\ ttype' = [ttype EXCEPT ![w] = t]
    /\ dirExists' = IF t = PDF THEN TRUE ELSE dirExists
    /\ Goto(w, "writing")
    /\ UNCHANGED <<outlineVars, extractVars, timeout, ossConfigured, lockTtl, task, elapsed, idx, acquired, success, outcome, lockKept>>

\* The last artifact is written and upload_to_oss starts as a task.  The PDF
\* conversion opens its Markdown file in a directory it made earlier: when the
\* directory is gone the open raises and the call returns None, no task.
ConvEnd(w) ==
    /\ pc[w] = "writing"
    /\ IF ttype[w] = PDF
         THEN /\ dirExists' = dirExists
              /\ Goto(w, IF dirExists /\ ~LOCAL_MODE THEN "set_doing" ELSE "idle")
         ELSE /\ dirExists' = TRUE
              /\ Goto(w, "set_doing")
    /\ UNCHANGED <<outlineVars, extractVars, timeout, ossConfigured, lockTtl, task, ttype, elapsed, idx, acquired, success, outcome, lockKept>>

\* ---------------------------------------------------------- upload_to_oss
\* update_task_status(product_code, <type>, DOING, ...)
SetDoing(w) ==
    /\ pc[w] = "set_doing"
    /\ update_task_status(ttype[w], DOING, "uploading")
    /\ Goto(w, "check_dir")
    /\ UNCHANGED <<outlineVars, extractVars, timeout, ossConfigured, lockTtl, dirExists, ttype, elapsed, idx, acquired, success, outcome, lockKept>>

\* (a run that goes for the lock without looking at the directory)
AfterCheckDirAlwaysAcquire(configured, exists) ==
    IF ~configured THEN "except" ELSE "acquire"

\* Where a run goes after OSSUploader() and os.path.exists(product_dir).
AfterCheckDir(configured, exists) ==
    IF ~configured THEN "except"
    ELSE IF ~exists THEN "fail_nodir" ELSE "acquire"

\* uploader = OSSUploader() raises ValueError on an incomplete configuration;
\* then os.path.exists(product_dir).
CheckDir(w) ==
    /\ pc[w] = "check_dir"
    /\ Goto(w, AfterCheckDir(ossConfigured, dirExists))
    /\ UNCHANGED <<outlineVars, extractVars, timeout, ossConfigured, lockTtl, task, dirExists, ttype, elapsed, idx, acquired, success, outcome, lockKept>>

\* product directory missing: status FAIL, return False
FailNoDir(w) ==
    /\ pc[w] = "fail_nodir"
    /\ update_task_status(ttype[w], FAIL, "no_product_dir")
    /\ outcome' = [outcome EXCEPT ![w] = "no_product_dir"]
    /\ Goto(w, "done")
    /\ UNCHANGED <<outlineVars, extractVars, timeout, ossConfigured, lockTtl, dirExists, ttype, elapsed, idx, acquired, success, lockKept>>

\* Where a run goes once acquire_file_lock returned ok.
AfterAcquire(ok) == IF ok THEN "upload" ELSE "wait_loop"

\* if not await task_manager.acquire_file_lock(product_code): start_time = now()
Acquire(w) ==
    /\ pc[w] = "acquire"
    /\ acquired' = [acquired EXCEPT ![w] = Returned_(acquire_file_lock_result)]
    /\ lockTtl' = acquire_file_lock_ttl
    /\ elapsed' = [elapsed EXCEPT ![w] = 0]
    /\ lockKept' = [lockKept EXCEPT ![w] = ~acquire_file_lock_result]
    /\ Goto(w, AfterAcquire(acquire_file_lock_result))
    /\ UNCHANGED <<outlineVars, extractVars, timeout, ossConfigured, task, dirExists, ttype, idx, success, outcome>>

\* (a wait that deletes the lock key)
WaitStoreEffectDeletesLock == lockTtl' = 0 /\ task' = task

\* wait_for_tasks_completion and check_all_tasks_completed only read the
\* store (redis.hgetall): the lock key and the Task Records stay as they are
WaitStoreEffect == lockTtl' = lockTtl /\ task' = task

\* while (datetime.now() - start_time).seconds < timeout: ... return False
\* (start_time is a local of the call: it is gone when the call returns)
WaitLoop(w) ==
    /\ pc[w] = "wait_loop"
    /\ IF WaitLoopCond(elapsed[w], timeout)
         THEN Goto(w, "check") /\ elapsed' = elapsed
         ELSE Goto(w, "fail_timeout") /\ elapsed' = [elapsed EXCEPT ![w] = 0]
    /\ idx' = [idx EXCEPT ![w] = 1]
    /\ WaitStoreEffect
    /\ UNCHANGED <<outlineVars, extractVars, timeout, ossConfigured, dirExists, ttype, acquired, success, outcome, lockKept>>

\* Where wait_for_tasks_completion goes once it returned true.
AfterWaitTrue == "upload"

\* check_all_tasks_completed: one get_task_status per listed type, in order;
\* the first one that is not terminal returns False (the loop then sleeps one
\* second and evaluates its condition again), the end of the list True.
Check(w) ==
    /\ pc[w] = "check"
    /\ LET rec == get_task_status(WaitList(ttype[w])[idx[w]])
       IN  IF ~IsTerminal(rec)
             THEN /\ Goto(w, "wait_loop") /\ idx' = [idx EXCEPT ![w] = 1]
                  /\ elapsed' = elapsed
           ELSE IF idx[w] < Len(WaitList(ttype[w]))
             THEN /\ Goto(w, "check") /\ idx' = [idx EXCEPT ![w] = idx[w] + 1]
                  /\ elapsed' = elapsed
           ELSE /\ Goto(w, AfterWaitTrue) /\ idx' = [idx EXCEPT ![w] = 1]
                /\ elapsed' = [elapsed EXCEPT ![w] = 0]
    /\ WaitStoreEffect
    /\ UNCHANGED <<outlineVars, extractVars, timeout, ossConfigured, dirExists, ttype, acquired, success, outcome, lockKept>>

\* (a timeout path that forgets its status)
WaitTimeoutStatusDoing == DOING

\* the status written when the wait returned False: TaskStatus.FAIL
WaitTimeoutStatus == FAIL

\* the wait returned False: status FAIL "wait timeout", return False
FailTimeout(w) ==
    /\ pc[w] = "fail_timeout"
    /\ update_task_status(ttype[w], WaitTimeoutStatus, "wait_timeout")
    /\ outcome' = [outcome EXCEPT ![w] = "wait_timeout"]
    /\ Goto(w, "done")
    /\ UNCHANGED <<outlineVars, extractVars, timeout, ossConfigured, lockTtl, dirExists, ttype, elapsed, idx, acquired, success, lockKept>>

\* (a run that deletes whatever the upload returned)
AfterUploadAlwaysDelete(ok) == "delete"

\* Where a run goes once upload_directory returned ok.
AfterUpload(ok) == IF ok THEN "delete" ELSE "set_fail"

\* success = uploader.upload_directory(product_dir): False when the directory
\* is missing or any file failed to upload (every exception is caught inside).
Upload(w) ==
    /\ pc[w] = "upload"
    /\ \E ok \in (IF dirExists THEN BOOLEAN ELSE {FALSE}) :
         /\ success' = [success EXCEPT ![w] = Returned_(ok)]
         /\ Goto(w, AfterUpload(ok))
    /\ UNCHANGED <<outlineVars, extractVars, timeout, ossConfigured, lockTtl, task, dirExists, ttype, elapsed, idx, acquired, outcome, lockKept>>

\* uploader.delete_local_files(product_dir): shutil.rmtree, its result ignored
Delete(w) ==
    /\ pc[w] = "delete"
    /\ \E removed \in BOOLEAN : dirExists' = (dirExists /\ ~removed)
    /\ Goto(w, "set_success")
    /\ UNCHANGED <<outlineVars, extractVars, timeout, ossConfigured, lockTtl, task, ttype, elapsed, idx, acquired, success, outcome, lockKept>>

SetSuccess(w) ==
    /\ pc[w] = "set_success"
    /\ update_task_status(ttype[w], SUCCESS, "upload_ok")
    /\ outcome' = [outcome EXCEPT ![w] = "upload_ok"]
    /\ Goto(w, "release")
    /\ UNCHANGED <<outlineVars, extractVars, timeout, ossConfigured, lockTtl, dirExists, ttype, elapsed, idx, acquired, success, lockKept>>

SetFail(w) ==
    /\ pc[w] = "set_fail"
    /\ update_task_status(ttype[w], FAIL, "upload_failed")
    /\ outcome' = [outcome EXCEPT ![w] = "upload_failed"]
    /\ Goto(w, "release")
    /\ UNCHANGED <<outlineVars, extractVars, timeout, ossConfigured, lockTtl, dirExists, ttype, elapsed, idx, acquired, success, lockKept>>

\* finally: await task_manager.release_file_lock(product_code); return success
Release(w) ==
    /\ pc[w] = "release"
    /\ lockTtl' = release_file_lock_ttl
    /\ lockKept' = [v \in Workers |-> FALSE]
    /\ Goto(w, "done")
    /\ UNCHANGED <<outlineVars, extractVars, timeout, ossConfigured, task, dirExists, ttype, elapsed, idx, acquired, success, outcome>>

\* except Exception: status FAIL "upload failed: <e>", return False
Except(w) ==
    /\ pc[w] = "except"
    /\ update_task_status(ttype[w], FAIL, "exception")
    /\ outcome' = [outcome EXCEPT ![w] = "exception"]
    /\ Goto(w, "done")
    /\ UNCHANGED <<outlineVars, extractVars, timeout, ossConfigured, lockTtl, dirExists, ttype, elapsed, idx, acquired, success, lockKept>>

\* The run has returned; the worker takes its next request.
Return(w) ==
    /\ pc[w] = "done"
    /\ Goto(w, "idle")
    /\ elapsed' = [elapsed EXCEPT ![w] = 0]
    /\ acquired' = [acquired EXCEPT ![w] = "none"]
    /\ success' = [success EXCEPT ![w] = "none"]
    /\ lockKept' = [lockKept EXCEPT ![w] = FALSE]
    /\ outcome' = [outcome EXCEPT ![w] = "none"]
    /\ ttype' = [ttype EXCEPT ![w] = PDF]
    /\ UNCHANGED <<outlineVars, extractVars, timeout, ossConfigured, lockTtl, task, dirExists, idx>>

\* ------------------------------------------------------------ environment
Waiting(w) == pc[w] \in {"wait_loop", "check"}

\* TickSeconds pass: the lock key ages (Redis removes it at its expiry) and so
\* does every running wait.  A poll loop sleeps one second a round, so it sees
\* its timeout before another TickSeconds have passed.
Tick ==
    /\ \A w \in Workers : Waiting(w) => WaitLoopCond(elapsed[w], timeout)
    /\ lockTtl' = IF lockTtl > TickSeconds THEN lockTtl - TickSeconds ELSE 0
    /\ elapsed' = [w \in Workers |->
                     IF Waiting(w) THEN AdvanceElapsed(elapsed[w]) ELSE elapsed[w]]
    /\ lockKept' = [w \in Workers |-> lockKept[w] /\ lockTtl > TickSeconds]
    /\ UNCHANGED <<outlineVars, extractVars, timeout, ossConfigured, task, dirExists, pc, ttype, idx, acquired, success, outcome>>

Next ==
    \/ \E w \in Workers : \E t \in {PDF, MDS} : ConvBegin(w, t)
    \/ \E w \in Workers : ConvEnd(w)
    \/ \E w \in Workers : SetDoing(w)
    \/ \E w \in Workers : CheckDir(w)
    \/ \E w \in Workers : FailNoDir(w)
    \/ \E w \in Workers : Acquire(w)
    \/ \E w \in Workers : WaitLoop(w)
    \/ \E w \in Workers : Check(w)
    \/ \E w \in Workers : FailTimeout(w)
    \/ \E w \in Workers : Upload(w)
    \/ \E w \in Workers : Delete(w)
    \/ \E w \in Workers : SetSuccess(w)
    \/ \E w \in Workers : SetFail(w)
    \/ \E w \in Workers : Release(w)
    \/ \E w \in Workers : Except(w)
    \/ \E w \in Workers : Return(w)
    \/ Tick


Spec == Init /\ [][Next]_vars

\* ------------------------------------------------ wait_for_tasks_completion
\* The worker whose call of wait_for_tasks_completion SpecWait follows.  Its
\* position "upload" is the call returned True, "fail_timeout" returned False.
Caller == 1

\* The timeout arguments: the default, two of its multiples under a day, a day,
\* and more than a day.
Timeouts == {DEFAULT_TIMEOUT, 2 * DEFAULT_TIMEOUT, SECONDS_PER_DAY,
             SECONDS_PER_DAY + DEFAULT_TIMEOUT}

\* The Task Records the publication runs of the other processes leave.
WrittenStatuses == {DOING, SUCCESS, FAIL}

InitWait ==
    /\ OutlineOff
    /\ ExtractOff
    /\ timeout \in Timeouts
    /\ lockTtl = 0
    /\ task \in {f \in [TaskTypes -> {TaskRecord(st, "") : st \in WrittenStatuses} \cup {NotFound}] :
                     f[EPUB] = NotFound}
    /\ dirExists = TRUE
    /\ ossConfigured = TRUE
    /\ pc = [w \in Workers |-> IF w = Caller THEN "wait_loop" ELSE "idle"]
    /\ ttype = [w \in Workers |-> PDF]
    /\ elapsed = [w \in Workers |-> 0]
    /\ idx = [w \in Workers |-> 1]
    /\ acquired = [w \in Workers |-> "none"]
    /\ success = [w \in Workers |-> "none"]
    /\ lockKept = [w \in Workers |-> FALSE]
    /\ outcome = [w \in Workers |-> "none"]

\* update_task_status called by a publication run of another process.
OtherRunWrites(t, status) ==
    /\ Waiting(Caller)
    /\ task[t].status # status
    /\ update_task_status(t, status, "")
    /\ UNCHANGED <<outlineVars, extractVars, timeout, ossConfigured, lockTtl, dirExists, pc, ttype, elapsed,
                   idx, acquired, success, outcome, lockKept>>

NextWait ==
    \/ WaitLoop(Caller)
    \/ Check(Caller)
    \/ \E t \in {PDF, MDS} : \E st \in WrittenStatuses : OtherRunWrites(t, st)
    \/ Tick

\* The event loop resumes the coroutine after each sleep and time passes.
SpecWait ==
    /\ InitWait
    /\ [][NextWait]_vars
    /\ WF_vars(WaitLoop(Caller))
    /\ WF_vars(Check(Caller))
    /\ WF_vars(Tick)

\* --------------------------------------------------------- Outline Builder
\* A line of the input: `hashes` '#' characters, then (when there are any) one
\* blank and `text`.  MAX_HASHES + 1 hashes stand for every longer run.
\* self.lines = markdown_content.split('\n') has at least one line: the empty
\* document is the one blank line.
MAX_HASHES == 6

LineSet ==
    [hashes : 1 .. MaxLevel, text : {"a", "b"}]
        \cup {[hashes |-> 0, text |-> ""], [hashes |-> 0, text |-> "a"],
              [hashes |-> 1, text |-> ""], [hashes |-> MAX_HASHES + 1, text |-> "a"]}

\* heading_pattern = re.compile(r'^(#{1,6})\s+(.+)$'); heading_pattern.match(line)
heading_match(line) ==
    line.hashes >= 1 /\ line.hashes <= MAX_HASHES /\ line.text # ""

\* a line that str.strip() removes altogether
IsBlank(line) == line.hashes = 0 /\ line.text = ""

RECURSIVE LStrip(_)
LStrip(content) ==
    IF content # <<>> /\ IsBlank(Head(content)) THEN LStrip(Tail(content)) ELSE content

RECURSIVE RStrip(_)
RStrip(content) ==
    IF content # <<>> /\ IsBlank(content[Len(content)])
      THEN RStrip(SubSeq(content, 1, Len(content) - 1))
      ELSE content

\* "\n".join(current_content).strip(), as the lines that are left
JoinStrip(content) == RStrip(LStrip(content))

\* node["level"] of the node with index i; the root has index 0 and level 0
LevelOf(i) == IF i = 0 THEN 0 ELSE nodes[i].level

\* (a loop that keeps a node of the same level on the stack)
PopCondStrict(topLevel, level) == topLevel > level

\* (a loop that empties the stack down to the root)
PopCondAlways(topLevel, level) == TRUE

\* node_stack[-1]["level"] >= level
PopCond(topLevel, level) == topLevel >= level

\* (a loop that pops nothing)
PopStackNone(stack, level) == stack

\* (an if in place of the while: at most one node is popped)
PopStackOnce(stack, level) ==
    IF Len(stack) > 1 /\ PopCond(LevelOf(stack[Len(stack)]), level)
      THEN SubSeq(stack, 1, Len(stack) - 1)
      ELSE stack

\* while len(node_stack) > 1 and node_stack[-1]["level"] >= level: node_stack.pop()
RECURSIVE PopStack(_, _)
PopStack(stack, level) ==
    IF Len(stack) > 1 /\ PopCond(LevelOf(stack[Len(stack)]), level)
      THEN PopStack(SubSeq(stack, 1, Len(stack) - 1), level)
      ELSE stack

\* (a flush into the outermost open heading instead of the latest one)
FlushedNodesToOutermost ==
    IF current_content = <<>> \/ node_stack[Len(node_stack)] = 0
      THEN nodes
      ELSE [nodes EXCEPT ![node_stack[2]].content = JoinStrip(current_content)]

\* (a flush that forgets to strip)
FlushedNodesRaw ==
    IF current_content = <<>> \/ node_stack[Len(node_stack)] = 0
      THEN nodes
      ELSE [nodes EXCEPT ![node_stack[Len(node_stack)]].content = current_content]

\* node_stack[-1]["content"] = "\n".join(current_content).strip(), when
\* current_content is not empty: the nodes and the root's content after it
FlushedNodes ==
    IF current_content = <<>> \/ node_stack[Len(node_stack)] = 0
      THEN nodes
      ELSE [nodes EXCEPT ![node_stack[Len(node_stack)]].content = JoinStrip(current_content)]

\* (a flush that loses what belongs to the root)
FlushedRootLost == rootContent

FlushedRoot ==
    IF current_content # <<>> /\ node_stack[Len(node_stack)] = 0
      THEN JoinStrip(current_content)
      ELSE rootContent

\* (a node that takes its title from the wrong group of the match)
new_node_hashes_title(line, parent) ==
    [title |-> "#", content |-> <<>>, level |-> line.hashes, parent |-> parent]

\* new_node = {"title": title, "content": "", "children": [], "level": level};
\* children is kept as the parent of each node: a node is appended to the
\* children of its parent when it is made, so the children of a node are the
\* nodes with that parent in the order of their indices.
new_node(line, parent) ==
    [title |-> line.text, content |-> <<>>, level |-> line.hashes, parent |-> parent]

\* node["children"] of the node with index i (0: the root), in stored order
Children(i) == {j \in 1 .. Len(nodes) : nodes[j].parent = i}

InitOutline ==
    /\ lines \in UNION {[1 .. n -> LineSet] : n \in 1 .. MaxLines}
    /\ pos = 1
    /\ nodes = <<>>
    /\ node_stack = <<0>>
    /\ current_content = <<>>
    /\ rootContent = <<>>
    /\ opc = "loop"
    /\ ExtractOff
    /\ timeout = DEFAULT_TIMEOUT
    /\ lockTtl = 0
    /\ task = [t \in TaskTypes |-> NotFound]
    /\ dirExists = FALSE
    /\ ossConfigured = TRUE
    /\ pc = [w \in Workers |-> "idle"]
    /\ ttype = [w \in Workers |-> PDF]
    /\ elapsed = [w \in Workers |-> 0]
    /\ idx = [w \in Workers |-> 1]
    /\ acquired = [w \in Workers |-> "none"]
    /\ success = [w \in Workers |-> "none"]
    /\ lockKept = [w \in Workers |-> FALSE]
    /\ outcome = [w \in Workers |-> "none"]

\* for line in self.lines: a heading line
HeadingLine ==
    /\ opc = "loop" /\ pos <= Len(lines)
    /\ heading_match(lines[pos])
    /\ LET popped == PopStack(node_stack, lines[pos].hashes)
       IN  /\ nodes' = Append(FlushedNodes, new_node(lines[pos], popped[Len(popped)]))
           /\ node_stack' = Append(popped, Len(nodes) + 1)
    /\ rootContent' = FlushedRoot
    /\ current_content' = <<>>
    /\ pos' = pos + 1
    /\ UNCHANGED <<lines, opc, coordVars, extractVars>>

\* for line in self.lines: any other line
TextLine ==
    /\ opc = "loop" /\ pos <= Len(lines)
    /\ ~heading_match(lines[pos])
    /\ current_content' = Append(current_content, lines[pos])
    /\ pos' = pos + 1
    /\ UNCHANGED <<lines, nodes, node_stack, rootContent, opc, coordVars, extractVars>>

\* after the loop: the last flush, return root["children"]
EndOfInput ==
    /\ opc = "loop" /\ pos > Len(lines)
    /\ nodes' = FlushedNodes
    /\ rootContent' = FlushedRoot
    /\ opc' = "returned"
    /\ UNCHANGED <<lines, pos, node_stack, current_content, coordVars, extractVars>>

NextOutline == HeadingLine \/ TextLine \/ EndOfInput

SpecOutline == InitOutline /\ [][NextOutline]_vars

\* ================================================================ claims
\* The section of upload_to_oss that uploads and deletes the product directory.
InPublishSection(w) == pc[w] \in {"upload", "delete"}

\* Everything after the lock-acquisition point of upload_to_oss.
PastLockPoint(w) == pc[w] \in {"upload", "delete", "set_success", "set_fail", "release"}

\* The run of w has returned.
Returned(w) == pc[w] = "done"

\* The step is the one on which the run of w returns.
Returns(w) == pc[w] # "done" /\ pc'[w] = "done"

\* C1: for one product code at most one publication run at a time is past the
\* lock-acquisition point, in the section that uploads and deletes the product
\* directory, whether it got there by a Lock success or after the wait returned
\* true.  Stated for the runs the claim names last: a run that passed the lock
\* point after WaitForCompletion returned true is never in that section
\* together with another run (two runs whose Lock both succeeded can only
\* overlap once the key was removed under its holder).
C1_AtMostOnePastLock ==
    \A w1, w2 \in Workers :
        (w1 # w2 /\ InPublishSection(w1) /\ InPublishSection(w2))
            => (acquired[w1] = "true" /\ acquired[w2] = "true")

\* C2: a publication run deletes the product directory only after its own
\* upload_directory returned true; when the upload returned false the run never
\* reaches the deletion and its status write is fail "upload failed".
C2_DeleteOnlyAfterUpload ==
    \A w \in Workers :
        /\ pc[w] \in {"delete", "set_success"} => success[w] = "true"
        /\ success[w] = "false" => pc[w] \in {"set_fail", "release", "done"}
        /\ (success[w] = "false" /\ pc[w] \in {"release", "done"})
              => outcome[w] = "upload_failed"
        /\ outcome[w] = "upload_ok" => success[w] = "true"

C2_Witness ==
    \E w \in Workers :
        /\ Returned(w) /\ success[w] = "false" /\ outcome[w] = "upload_failed"
        /\ dirExists
        /\ task[ttype[w]] = TaskRecord(FAIL, "upload_failed")

\* The run of w has written DOING to its Task Record and not yet its final status.
BetweenStatusWrites(w) ==
    pc[w] \in {"check_dir", "fail_nodir", "acquire", "wait_loop", "check",
               "fail_timeout", "upload", "delete", "set_success", "set_fail", "except"}

\* C3: after a publication run returned, on any path, the Task Record of its
\* own task type holds a terminal status (success or fail, not doing), unless
\* another run of the same task type has written the record since (such a run
\* writes DOING first and is then between its two status writes).
C3_TerminalStatusAtReturn ==
    \A w \in Workers :
        Returned(w) =>
            /\ outcome[w] \in {"upload_ok", "upload_failed", "wait_timeout",
                               "no_product_dir", "exception"}
            /\ \/ IsTerminal(task[ttype[w]])
               \/ \E v \in Workers \ {w} : ttype[v] = ttype[w] /\ BetweenStatusWrites(v)

C3_Witness ==
    \E w \in Workers :
        /\ Returned(w) /\ outcome[w] = "wait_timeout"
        /\ task[ttype[w]] = TaskRecord(FAIL, "wait_timeout")

\* C4 as claimed: every exit path of a publication run that attempted Lock,
\* the wait timeout included, ends with a release of the lock key as its final
\* step.
C4_EveryExitReleases ==
    [][\A w \in Workers :
         (Returns(w) /\ acquired[w] # "none")
            => (pc[w] = "release" /\ ~LockPresent')]_vars

\* C4 as amended: every exit path of a publication run that got past the
\* lock-acquisition point (upload success, upload failure) ends with a release
\* of the lock key as its final step; the wait-timeout path returns with a
\* status write and leaves the key as it is.
C4_ExitReleasesUnlessTimeout ==
    [][\A w \in Workers :
         (Returns(w) /\ acquired[w] # "none")
            => \/ pc[w] = "release" /\ ~LockPresent'
                  /\ outcome[w] \in {"upload_ok", "upload_failed"}
               \/ pc[w] = "fail_timeout" /\ lockTtl' = lockTtl
                  /\ acquired[w] = "false"]_vars

C4_Witness ==
    \E w \in Workers :
        Returned(w) /\ acquired[w] = "false" /\ outcome[w] = "wait_timeout" /\ LockPresent

\* C5: acquire_file_lock returns true exactly when the key is absent and then
\* leaves it present, so every later call returns false (and changes nothing)
\* until release_file_lock or the expiry removes the key; release_file_lock
\* leaves the key absent, so the next call returns true.
C5_LockSemantics ==
    [][\A w \in Workers :
         /\ (pc[w] = "acquire" /\ pc'[w] # "acquire") =>
               /\ acquired'[w] = Returned_(~LockPresent)
               /\ LockPresent'
               /\ LockPresent => lockTtl' = lockTtl
               /\ pc'[w] = (IF LockPresent THEN "wait_loop" ELSE "upload")
         /\ (pc[w] = "release" /\ pc'[w] # "release") => ~LockPresent'
         /\ (LockPresent /\ ~LockPresent') =>
               \/ \E v \in Workers : pc[v] = "release" /\ pc'[v] = "done"
               \/ lockTtl <= TickSeconds /\ pc' = pc]_vars

C5_Witness ==
    \E w1, w2 \in Workers :
        /\ acquired[w1] = "true" /\ PastLockPoint(w1)
        /\ acquired[w2] = "false" /\ pc[w2] = "wait_loop"
        /\ LockPresent

\* The task types the wait of the caller lists.
Listed == {WaitList(ttype[Caller])[i] : i \in 1 .. Len(WaitList(ttype[Caller]))}

\* The call of wait_for_tasks_completion has returned.
WaitReturned == pc[Caller] \in {"upload", "fail_timeout"}

\* C6, first part: a poll of wait_for_tasks_completion sends the loop to its
\* next round only when some listed task type is not terminal at that moment,
\* and the call returns false only when the timeout has elapsed.
C6_PollAndTimeoutSound ==
    [][/\ (pc[Caller] = "check" /\ pc'[Caller] = "wait_loop")
             => \E t \in Listed : ~IsTerminal(task[t])
       /\ (pc[Caller] = "wait_loop" /\ pc'[Caller] = "fail_timeout")
             => elapsed[Caller] >= timeout]_vars

\* C6, second part: wait_for_tasks_completion never returns true while some
\* listed task type is doing or has no record.
C6_NeverTrueWhileUnfinished ==
    [][(pc[Caller] = "check" /\ pc'[Caller] = "upload")
          => \A t \in Listed : IsTerminal(task[t])]_vars

\* C6, third part: once the timeout has elapsed with no poll having found
\* every listed task type terminal, the loop condition ends the wait with false.
C6_FalseOnceTimeoutElapsed ==
    [][(pc[Caller] = "wait_loop" /\ pc'[Caller] # "wait_loop"
          /\ elapsed[Caller] >= timeout)
          => pc'[Caller] = "fail_timeout"]_vars

\* C6: wait_for_tasks_completion returns true at the first poll at which every
\* listed task type is success or fail, returns false if the timeout elapses
\* before such a poll, and never returns true while a listed task type is
\* doing or has no record.
C6_WaitContract ==
    /\ C6_PollAndTimeoutSound
    /\ C6_NeverTrueWhileUnfinished
    /\ C6_FalseOnceTimeoutElapsed

\* C9: wait_for_tasks_completion terminates for every timeout value, also when
\* the listed task types never become terminal: in every run of the wait the
\* call returns, or else at some moment every listed task type is terminal.
C9_WaitTerminates == <>(WaitReturned \/ \A t \in Listed : IsTerminal(task[t]))

\* C9 for the timeouts under a day: the wait terminates.
C9_WaitUnderADayTerminates == (timeout < SECONDS_PER_DAY) => <>WaitReturned

C8_NoPublishDuringConversion ==
    \A w1, w2 \in Workers :
        ~(InPublishSection(w1) /\ pc[w2] = "writing")

\* C10: in the forest extract_structure returns, for any input, the children
\* of every node all have a level strictly greater than the node's own level.
C10_ChildrenDeeper ==
    opc = "returned" =>
        \A i \in 1 .. Len(nodes) : \A j \in Children(i) : nodes[j].level > nodes[i].level

C10_Witness ==
    /\ opc = "returned"
    /\ \E i, j, k \in 1 .. Len(nodes) :
          /\ j \in Children(i) /\ k \in Children(i) /\ j < k
          /\ nodes[i].level = 1 /\ nodes[j].level = 3 /\ nodes[k].level = 2

\* ------------------------------------------------- outline: C11 .. C15
\* The elements of a set of node indices in increasing order.
RECURSIVE SortedSeq(_)
SortedSeq(S) ==
    IF S = {} THEN <<>>
    ELSE LET m == CHOOSE x \in S : \A y \in S : x <= y
         IN  <<m>> \o SortedSeq(S \ {m})

\* Depth-first pre-order traversal, children in stored order, of the trees whose
\* roots are the nodes of todo.
RECURSIVE PreOrder(_)
PreOrder(todo) ==
    IF todo = <<>> THEN <<>>
    ELSE <<Head(todo)>> \o PreOrder(SortedSeq(Children(Head(todo))) \o Tail(todo))

\* The heading lines of the input, in input order.
InputHeadings == SelectSeq(lines, heading_match)

\* The positions of the heading lines of the input, in input order.
HeadingPositions == SortedSeq({p \in 1 .. Len(lines) : heading_match(lines[p])})

\* C11: a depth-first pre-order traversal of the returned forest yields exactly
\* the input headings, each once, in input order, with their levels and titles.
C11_PreOrderIsInput ==
    opc = "returned" =>
        LET order == PreOrder(SortedSeq(Children(0)))
        IN  /\ Len(order) = Len(InputHeadings)
            /\ \A k, l \in 1 .. Len(order) : order[k] = order[l] => k = l
            /\ \A k \in 1 .. Len(order) :
                  /\ nodes[order[k]].level = InputHeadings[k].hashes
                  /\ nodes[order[k]].title = InputHeadings[k].text

C11_Witness ==
    /\ opc = "returned"
    /\ Len(nodes) = 4
    /\ nodes[1].title = "a" /\ nodes[2].title = "b" /\ nodes[4].title = "b"
    /\ nodes[1].level = 1 /\ nodes[2].level = 2 /\ nodes[3].level = 3 /\ nodes[4].level = 2
    /\ PreOrder(SortedSeq(Children(0))) = <<1, 2, 3, 4>>

\* C12 as claimed: all children of one node have the same level.
C12_SiblingsSameLevel ==
    opc = "returned" =>
        \A i \in 0 .. Len(nodes) : \A j, k \in Children(i) : nodes[j].level = nodes[k].level

\* C12 as amended: among the children of one node a later child never has a
\* greater level than an earlier one; the levels of siblings differ where the
\* input's levels jump (1, 3, 2: the children of the first have levels 3, 2).
C12_SiblingLevelsNeverRise ==
    opc = "returned" =>
        \A i \in 0 .. Len(nodes) : \A j, k \in Children(i) :
            j < k => nodes[k].level <= nodes[j].level

C12_Witness ==
    /\ opc = "returned"
    /\ \E i, j, k \in 1 .. Len(nodes) :
          /\ j \in Children(i) /\ k \in Children(i) /\ j < k
          /\ nodes[k].level < nodes[j].level

\* The nearest heading before the k-th whose level is strictly smaller (0: none).
NearestShallower(k) ==
    LET before == {j \in 1 .. k - 1 : InputHeadings[j].hashes < InputHeadings[k].hashes}
    IN  IF before = {} THEN 0 ELSE CHOOSE j \in before : \A i \in before : i <= j

\* C13: the parent of each heading is the nearest preceding heading of a
\* strictly smaller level, or the root when there is none; a heading is never
\* the child of a heading of its own level.
C13_ParentIsNearestShallower ==
    opc = "returned" =>
        /\ Len(nodes) = Len(InputHeadings)
        /\ \A k \in 1 .. Len(nodes) :
              /\ nodes[k].parent = NearestShallower(k)
              /\ nodes[k].parent # 0 => nodes[nodes[k].parent].level # nodes[k].level

\* levels 1 (A), 3 (B), 2 (C): B and C are children of A, C is not a child of B
\* (and A, A: the second is a child of the root, not of the first)
C13_Witness ==
    /\ opc = "returned"
    /\ Len(nodes) = 4
    /\ nodes[1].level = 1 /\ nodes[2].level = 3 /\ nodes[3].level = 2 /\ nodes[4].level = 2
    /\ nodes[2].parent = 1 /\ nodes[3].parent = 1 /\ nodes[4].parent = 1

\* The position of the first heading after the k-th whose level passes the
\* test `upTo` (any level: MAX_HASHES), or Len(lines) + 1 when there is none.
NextHeadingPos(k, upTo) ==
    LET later == {p \in HeadingPositions[k] + 1 .. Len(lines) :
                     heading_match(lines[p]) /\ lines[p].hashes <= upTo}
    IN  IF later = {} THEN Len(lines) + 1 ELSE CHOOSE p \in later : \A q \in later : p <= q

NotHeading(line) == ~heading_match(line)

\* The lines that are no headings from position from to position to.
TextBetween(from, to) == SelectSeq(SubSeq(lines, from, to), NotHeading)

\* C14 as claimed: the content of each node is the text between its heading and
\* the next heading of equal or higher level, so it extends over the node's
\* deeper sub-headings.
C14_ContentToNextSameOrHigher ==
    opc = "returned" =>
        \A k \in 1 .. Len(nodes) :
            nodes[k].content =
                JoinStrip(TextBetween(HeadingPositions[k] + 1,
                                      NextHeadingPos(k, nodes[k].level) - 1))

\* C14 as amended: the content of each node is the text, joined and stripped,
\* between its heading and the next heading of any level; it ends at the
\* node's first sub-heading and the text under a sub-heading is the content of
\* that sub-heading's node.
C14_ContentToNextHeading ==
    opc = "returned" =>
        /\ Len(nodes) = Len(HeadingPositions)
        /\ \A k \in 1 .. Len(nodes) :
              nodes[k].content =
                  JoinStrip(SubSeq(lines, HeadingPositions[k] + 1,
                                   NextHeadingPos(k, MAX_HASHES) - 1))

C14_Witness ==
    /\ opc = "returned"
    /\ Len(nodes) = 2 /\ nodes[2].parent = 1
    /\ nodes[1].content = <<[hashes |-> 0, text |-> "a"]>>
    /\ nodes[2].content = <<[hashes |-> 0, text |-> "a"]>>

\* C15: for an input without a heading line (the empty input is one blank
\* line) extract_structure returns the empty forest; the text before the first
\* heading goes to the root, which is not returned, and to no node: when all
\* the text of the input is before the first heading every node has an empty
\* content.
C15_NoHeadingNoNode ==
    opc = "returned" =>
        /\ InputHeadings = <<>> => (nodes = <<>> /\ Children(0) = {})
        /\ rootContent =
              JoinStrip(SubSeq(lines, 1,
                  IF InputHeadings = <<>> THEN Len(lines) ELSE HeadingPositions[1] - 1))
        /\ (\A p \in 1 .. Len(lines) :
               (~heading_match(lines[p]) /\ ~IsBlank(lines[p]))
                   => (InputHeadings = <<>> \/ p < HeadingPositions[1]))
             => \A k \in 1 .. Len(nodes) : nodes[k].content = <<>>

C15_Witness ==
    /\ opc = "returned"
    /\ InputHeadings = <<>> /\ Len(lines) >= 2
    /\ nodes = <<>>
    /\ rootContent = <<[hashes |-> 0, text |-> "a"]>>

\* the empty input
C15_WitnessEmpty ==
    /\ opc = "returned"
    /\ lines = <<[hashes |-> 0, text |-> ""]>>
    /\ nodes = <<>>

\* text, then a heading: the node is there and the text is not in it
C15_WitnessTextFirst ==
    /\ opc = "returned"
    /\ Len(lines) = 3 /\ Len(nodes) = 1
    /\ rootContent = <<[hashes |-> 0, text |-> "a"]>>
    /\ nodes[1].content = <<>>

\* ---------------------------------------------------------------------------
\* EPUB reader: extract_content_from_epub and convert_html_to_markdown
\* (src/epub_extractor.py).  An archive is its manifest, a sequence of items
\* whose id is the position in the manifest, and its spine.
\* ---------------------------------------------------------------------------

MaxItems == 3

MaxRefs == 2

\* the hrefs of the image items of the archives
ImageHrefs == {"x.png", "img/x.png"}

\* the src attributes of the img tags of the content documents
Sources == {"x.png", "img/x.png"}

\* os.path.basename
basename(p) ==
    CASE p = "img/x.png" -> "x.png"
      [] OTHER -> p

\* the strings that are looked up in, or stored as keys of, image_map
MapKeys == ImageHrefs \cup Sources \cup {basename(p) : p \in ImageHrefs \cup Sources}

\* manifest items by media-type: a content document, an image, anything else
ManifestItems ==
    {[media |-> "content", href |-> "c.xhtml"], [media |-> "other", href |-> "toc.ncx"]}
        \cup {[media |-> "image", href |-> h] : h \in ImageHrefs}

Manifests == UNION {[1 .. n -> ManifestItems] : n \in 1 .. MaxItems}

\* the itemref lists of a spine over n manifest items: idrefs are not repeated
Itemrefs(n) ==
    {r \in UNION {[1 .. k -> 1 .. n] : k \in 0 .. MaxRefs} :
        \A i, j \in 1 .. Len(r) : r[i] = r[j] => i = j}

\* the ids of the items of one media kind in manifest order: the insertion
\* order of the dicts content_items and image_items
ItemsOf(manifest, kind) ==
    LET RECURSIVE From(_)
        From(i) == IF i > Len(manifest) THEN <<>>
                   ELSE IF manifest[i].media = kind THEN <<i>> \o From(i + 1)
                   ELSE From(i + 1)
    IN  From(1)

\* the dicts the manifest loop has built, as the sequences of their keys
content_items(e) == e.content_items

image_items(e) == e.image_items

InSeq(x, s) == \E i \in 1 .. Len(s) : s[i] = x

WalkManifestOnly(e) == content_items(e)

\* what the conversion loop iterates over: itemrefs if it is non-empty,
\* else content_items
Walk(e) == IF e.itemrefs # <<>> THEN e.itemrefs ELSE content_items(e)

\* f"/books/images/{product_id}/{image_id}{ext}" is identified by the image id;
\* 0 stands for a key that is not in image_map
EmptyMap == [k \in MapKeys |-> 0]

SavedMapHrefOnly(map, id, href) == [map EXCEPT ![href] = id]

\* image_map[os.path.basename(image_href)] = prefixed_path
\* image_map[image_href] = prefixed_path
SavedMap(map, id, href) == [map EXCEPT ![basename(href)] = id, ![href] = id]

\* the src a img tag is given: the literal key, else the basename key, else
\* it is left as it is (0)
Rewritten(map, src) ==
    IF map[src] # 0 THEN map[src]
    ELSE IF map[basename(src)] # 0 THEN map[basename(src)]
    ELSE 0

\* the state of a call that has not parsed the archive yet
EpubStart(manifest, hasSpine, itemrefs) ==
    [epc |-> "start", manifest |-> manifest, hasSpine |-> hasSpine, itemrefs |-> itemrefs,
     content_items |-> <<>>, image_items |-> <<>>,
     ipos |-> 1, image_map |-> EmptyMap, written |-> {}, failed |-> {},
     cpos |-> 1, markdown_content |-> <<>>, skipped |-> {}, output_written |-> FALSE,
     error |-> "none", result |-> "pending"]

\* the coordinator is idle
CoordIdle ==
    /\ timeout = DEFAULT_TIMEOUT
    /\ lockTtl = 0
    /\ task = [t \in TaskTypes |-> NotFound]
    /\ dirExists = FALSE
    /\ ossConfigured = TRUE
    /\ pc = [w \in Workers |-> "idle"]
    /\ ttype = [w \in Workers |-> PDF]
    /\ elapsed = [w \in Workers |-> 0]
    /\ idx = [w \in Workers |-> 1]
    /\ acquired = [w \in Workers |-> "none"]
    /\ success = [w \in Workers |-> "none"]
    /\ lockKept = [w \in Workers |-> FALSE]
    /\ outcome = [w \in Workers |-> "none"]

InitEpub ==
    /\ \E manifest \in Manifests : \E hasSpine \in BOOLEAN :
        \E itemrefs \in (IF hasSpine THEN Itemrefs(Len(manifest)) ELSE {<<>>}) :
            epub = EpubStart(manifest, hasSpine, itemrefs)
    /\ pdfx = [ppc |-> "off"]
    /\ mdsx = [mpc |-> "off"]
    /\ hier = [hpc |-> "off"]
    /\ OutlineOff
    /\ CoordIdle

\* the early returns: the file is missing, the file name holds no product
\* id, or opening the archive and parsing container.xml and the OPF raises
EpubOpenFails ==
    /\ epub.epc = "start"
    /\ \E why \in {"missing", "no_product_id", "malformed"} :
        epub' = [epub EXCEPT !.epc = "returned", !.error = why, !.result = "None"]
    /\ UNCHANGED <<pdfx, mdsx, hier, outlineVars, coordVars>>

\* the archive is parsed: itemrefs, content_items and image_items are built
EpubOpen ==
    /\ epub.epc = "start"
    /\ epub' = [epub EXCEPT !.epc = "images",
                            !.content_items = ItemsOf(epub.manifest, "content"),
                            !.image_items = ItemsOf(epub.manifest, "image")]
    /\ UNCHANGED <<pdfx, mdsx, hier, outlineVars, coordVars>>

ImageFailureAborts(e, id) ==
    [e EXCEPT !.failed = @ \cup {id}, !.epc = "returned", !.error = "image", !.result = "None"]

\* except Exception around one image: nothing is recorded in image_map
ImageFailure(e, id) ==
    [e EXCEPT !.failed = @ \cup {id}, !.ipos = @ + 1]

\* one image was read and saved
ImageSaved(e, id) ==
    [e EXCEPT !.written = @ \cup {id}, !.ipos = @ + 1,
              !.image_map = SavedMap(@, id, e.manifest[id].href)]

\* for image_id, image_href in image_items.items()
EpubImage ==
    /\ epub.epc = "images" /\ epub.ipos <= Len(image_items(epub))
    /\ LET id == image_items(epub)[epub.ipos]
       IN  \/ epub' = ImageSaved(epub, id)
           \/ epub' = ImageFailure(epub, id)
    /\ UNCHANGED <<pdfx, mdsx, hier, outlineVars, coordVars>>

\* after the image loop: the title and the author of the metadata, if any,
\* are the first blocks
EpubHead ==
    /\ epub.epc = "images" /\ epub.ipos > Len(image_items(epub))
    /\ \E title, author \in BOOLEAN :
        epub' = [epub EXCEPT !.epc = "convert",
                    !.markdown_content =
                        (IF title THEN <<[kind |-> "title", item |-> 0, src |-> "", out |-> 0]>> ELSE <<>>)
                        \o (IF author THEN <<[kind |-> "author", item |-> 0, src |-> "", out |-> 0]>> ELSE <<>>)]
    /\ UNCHANGED <<pdfx, mdsx, hier, outlineVars, coordVars>>

\* convert_html_to_markdown of one content document whose img tag has src
ContentBlock(e, id, src) ==
    [kind |-> "content", item |-> id, src |-> src, out |-> Rewritten(e.image_map, src)]

\* one turn of the conversion loop on an idref or key of content_items: the
\* document is converted and appended, or reading it raises and it is skipped
EpubConvert ==
    /\ epub.epc = "convert" /\ epub.cpos <= Len(Walk(epub))
    /\ LET id == Walk(epub)[epub.cpos]
       IN  /\ InSeq(id, content_items(epub))
           /\ \/ \E src \in Sources :
                    epub' = [epub EXCEPT !.cpos = @ + 1,
                                !.markdown_content = Append(@, ContentBlock(epub, id, src))]
              \/ epub' = [epub EXCEPT !.cpos = @ + 1, !.skipped = @ \cup {id}]
    /\ UNCHANGED <<pdfx, mdsx, hier, outlineVars, coordVars>>

\* if idref in content_items: an idref that names no content item is passed over
EpubSkipRef ==
    /\ epub.epc = "convert" /\ epub.cpos <= Len(Walk(epub))
    /\ ~InSeq(Walk(epub)[epub.cpos], content_items(epub))
    /\ epub' = [epub EXCEPT !.cpos = @ + 1]
    /\ UNCHANGED <<pdfx, mdsx, hier, outlineVars, coordVars>>

\* the Markdown document is written, or writing it raises
EpubWrite ==
    /\ epub.epc = "convert" /\ epub.cpos > Len(Walk(epub))
    /\ \/ epub' = [epub EXCEPT !.epc = "dsl", !.output_written = TRUE]
       \/ epub' = [epub EXCEPT !.epc = "returned", !.error = "write", !.result = "None"]
    /\ UNCHANGED <<pdfx, mdsx, hier, outlineVars, coordVars>>

\* generate_dsl_file, then return output_path; an exception returns None
EpubReturn ==
    /\ epub.epc = "dsl"
    /\ \/ epub' = [epub EXCEPT !.epc = "returned", !.result = "output_path"]
       \/ epub' = [epub EXCEPT !.epc = "returned", !.error = "dsl", !.result = "None"]
    /\ UNCHANGED <<pdfx, mdsx, hier, outlineVars, coordVars>>

NextEpub ==
    \/ EpubOpenFails
    \/ EpubOpen
    \/ EpubImage
    \/ EpubHead
    \/ EpubConvert
    \/ EpubSkipRef
    \/ EpubWrite
    \/ EpubReturn

SpecEpub == InitEpub /\ [][NextEpub]_vars


\* the blocks of content documents among markdown_content, by item id
BlockItems ==
    LET c == SelectSeq(epub.markdown_content, LAMBDA b : b.kind = "content")
    IN  [i \in 1 .. Len(c) |-> c[i].item]

\* an archive the EPUB format allows: a spine has at least one itemref, and
\* every content document of the manifest is in the archive
ValidArchive == (epub.hasSpine => epub.itemrefs # <<>>) /\ epub.skipped = {}

\* the content items the spine names, in spine order
SpineOrder ==
    SelectSeq(epub.itemrefs, LAMBDA id : InSeq(id, content_items(epub)))

\* C16: once the Markdown document of a valid archive is written, the content
\* blocks are in spine itemref order if the archive has a spine, and in the
\* manifest order of the content items if it has none.
C16_BlockOrder ==
    (epub.epc \in {"dsl", "returned"} /\ epub.output_written /\ ValidArchive)
        => BlockItems = (IF epub.hasSpine THEN SpineOrder ELSE content_items(epub))

\* a written document whose spine puts the second content item before the first
C16_Witness ==
    /\ epub.epc = "returned" /\ epub.result = "output_path" /\ ValidArchive
    /\ epub.hasSpine /\ epub.itemrefs = <<2, 1>>
    /\ BlockItems = <<2, 1>>

\* a written document of an archive without a spine, in manifest order
C16_WitnessNoSpine ==
    /\ epub.epc = "returned" /\ epub.result = "output_path" /\ ValidArchive
    /\ ~epub.hasSpine
    /\ BlockItems = <<1, 3>>


\* the ids of the image items of the manifest
ImageIds == {image_items(epub)[i] : i \in 1 .. Len(image_items(epub))}

\* the call returned before the archive was parsed
OpenErrors == {"missing", "no_product_id", "malformed"}

\* the content documents that could be read, in the order of the loop
ConvertedOrder ==
    SelectSeq(Walk(epub),
              LAMBDA id : InSeq(id, content_items(epub)) /\ id \notin epub.skipped)

\* C17: an image item that cannot be read or saved does not end the
\* extraction: once the conversion loop is over every image item has been
\* either saved or logged as failed, every readable content document has been
\* converted in order, the Markdown document is written unless writing it
\* fails itself, and no key of the Image Reference Map points to a failed image.
C17_ImageFailureTolerated ==
    /\ epub.epc # "off" =>
        \A k \in MapKeys : epub.image_map[k] \notin epub.failed
    /\ (epub.epc \in {"dsl", "returned"} /\ epub.error \notin OpenErrors) =>
        /\ epub.failed \cup epub.written = ImageIds
        /\ epub.failed \cap epub.written = {}
        /\ BlockItems = ConvertedOrder
        /\ epub.output_written \/ epub.error = "write"

\* a returned extraction whose first image failed and whose later image was
\* saved and mapped, with a content document converted and the file written
C17_Witness ==
    /\ epub.epc = "returned" /\ epub.result = "output_path" /\ epub.output_written
    /\ \E i, j \in 1 .. Len(image_items(epub)) :
          /\ i < j
          /\ image_items(epub)[i] \in epub.failed
          /\ image_items(epub)[j] \in epub.written
          /\ epub.image_map[epub.manifest[image_items(epub)[j]].href] = image_items(epub)[j]
    /\ BlockItems # <<>>


\* the reference src is the href of image item id or the basename of its href
NamesImage(src, id) ==
    src = epub.manifest[id].href \/ src = basename(epub.manifest[id].href)

\* the reference src is present in the manifest
RefInManifest(src) == \E id \in ImageIds : NamesImage(src, id)

\* the blocks of content documents among markdown_content
ContentBlocks == {epub.markdown_content[i] : i \in 1 .. Len(epub.markdown_content)}
                    \ {b \in {epub.markdown_content[i] : i \in 1 .. Len(epub.markdown_content)} :
                          b.kind # "content"}

\* C18 as stated: every reference that is present in the manifest is
\* rewritten to the published path of an image file written by this extraction.
C18_EveryManifestRefPublished ==
    epub.epc # "off" =>
        \A b \in ContentBlocks :
            RefInManifest(b.src) => (b.out # 0 /\ b.out \in epub.written)

\* the reference src and the href of image item id have the same base name
SameBase(src, id) == basename(src) = basename(epub.manifest[id].href)

\* C18 amended: a reference is rewritten exactly if this extraction saved an
\* image item whose href has the reference's base name, and then to the
\* published path of such a saved item: the item the reference names by href
\* or basename if one of those was saved; it is never rewritten to the path
\* of a file that was not written, and a reference to an image item that
\* failed is left as it is unless a saved item has the same base name.
C18_SavedRefPublished ==
    epub.epc # "off" =>
        \A b \in ContentBlocks :
            /\ b.out # 0 <=> \E id \in epub.written : SameBase(b.src, id)
            /\ b.out # 0 => (b.out \in epub.written /\ SameBase(b.src, b.out))
            /\ (\E id \in epub.written : NamesImage(b.src, id)) => NamesImage(b.src, b.out)

\* a written document with a reference to the basename of a saved image,
\* rewritten to that image's published path
C18_Witness ==
    /\ epub.epc = "returned" /\ epub.result = "output_path"
    /\ \E b \in ContentBlocks :
          /\ b.out \in epub.written
          /\ b.src = basename(epub.manifest[b.out].href)
          /\ b.src # epub.manifest[b.out].href

\* a written document with a reference to an image item that failed, left as
\* it is
C18_WitnessFailed ==
    /\ epub.epc = "returned" /\ epub.result = "output_path"
    /\ \E b \in ContentBlocks : RefInManifest(b.src) /\ b.out = 0

\* a written document with a reference to the href of an image item that
\* failed, rewritten to the path of another image with the same base name
C18_WitnessOtherImage ==
    /\ epub.epc = "returned" /\ epub.result = "output_path"
    /\ \E b \in ContentBlocks :
          /\ b.out \in epub.written
          /\ ~NamesImage(b.src, b.out)
          /\ \E id \in epub.failed : b.src = epub.manifest[id].href


\* ---------------------------------------------------------------------------
\* PDF reader: extract_content_from_pdf (src/pdf_to_md.py).  A document is
\* the sequence of its pages, a page the number of images of its image list.
\* ---------------------------------------------------------------------------

MaxPages == 2

MaxImages == 2

Documents == UNION {[1 .. n -> 0 .. MaxImages] : n \in 0 .. MaxPages}

image_name_zero_based(page_num, img_index) == [n |-> page_num, m |-> img_index]

\* f"page_{page_num + 1}_img_{img_index + 1}{image_ext}"
image_name(page_num, img_index) == [n |-> page_num + 1, m |-> img_index + 1]

\* the state of a call that has not run yet
PdfStart(save, exists, pages) ==
    [ppc |-> "start", save |-> save, exists |-> exists, pages |-> pages,
     temp_dir |-> "none", page_num |-> 0, img_index |-> 0, text |-> <<>>,
     markdown_content |-> <<>>, saved |-> {}, files |-> {}, output_written |-> FALSE,
     upload |-> FALSE, error |-> "none", result |-> "pending"]

InitPdf ==
    /\ \E save, exists \in BOOLEAN : \E pages \in Documents :
          pdfx = PdfStart(save, exists, pages)
    /\ epub = [epc |-> "off"]
    /\ mdsx = [mpc |-> "off"]
    /\ hier = [hpc |-> "off"]
    /\ OutlineOff
    /\ CoordIdle

\* the output and image directories: under ./data/<code> if save, else
\* under a directory made by tempfile.mkdtemp()
PdfSetup ==
    /\ pdfx.ppc = "start"
    /\ pdfx' = [pdfx EXCEPT !.ppc = "check",
                            !.temp_dir = IF pdfx.save THEN "none" ELSE "exists"]
    /\ UNCHANGED <<epub, mdsx, hier, outlineVars, coordVars>>

\* if not pdf_path.exists(): return None
PdfMissing ==
    /\ pdfx.ppc = "check" /\ ~pdfx.exists
    /\ pdfx' = [pdfx EXCEPT !.ppc = "returned", !.error = "missing", !.result = "None"]
    /\ UNCHANGED <<epub, mdsx, hier, outlineVars, coordVars>>

\* fitz.open; the title and the author of the metadata, if any, are the
\* first blocks
PdfOpen ==
    /\ pdfx.ppc = "check" /\ pdfx.exists
    /\ \E title, author \in BOOLEAN :
        pdfx' = [pdfx EXCEPT !.ppc = "pages",
                    !.markdown_content =
                        (IF title THEN <<[kind |-> "title", page |-> 0, refs |-> <<>>]>> ELSE <<>>)
                        \o (IF author THEN <<[kind |-> "author", page |-> 0, refs |-> <<>>]>> ELSE <<>>)]
    /\ UNCHANGED <<epub, mdsx, hier, outlineVars, coordVars>>

\* the files of the call's image directory and, for save = False, everything
\* else under temp_dir
RemovedTree(p) == [p EXCEPT !.temp_dir = "removed", !.files = {}, !.output_written = FALSE]

\* except Exception: print, return None
ExceptReturn(p) ==
    [p EXCEPT !.ppc = "returned", !.error = "exception", !.result = "None"]

\* an exception inside the try: fitz.open or the metadata, page.get_text or
\* page.get_images of a page, or writing and reading back the output file
PdfExcept ==
    /\ \/ pdfx.ppc = "check" /\ pdfx.exists
       \/ pdfx.ppc = "pages" /\ pdfx.img_index = 0
    /\ pdfx' = ExceptReturn(pdfx)
    /\ UNCHANGED <<epub, mdsx, hier, outlineVars, coordVars>>

\* for img_index, img in enumerate(image_list): the image is extracted,
\* saved and its reference appended to the page's text, or the failure is
\* printed
PdfImage ==
    /\ pdfx.ppc = "pages" /\ pdfx.page_num < Len(pdfx.pages)
    /\ pdfx.img_index < pdfx.pages[pdfx.page_num + 1]
    /\ \/ pdfx' = [pdfx EXCEPT !.img_index = @ + 1,
                      !.files = @ \cup {image_name(pdfx.page_num, pdfx.img_index)},
                      !.saved = @ \cup {<<pdfx.page_num, pdfx.img_index>>},
                      !.text = Append(@, image_name(pdfx.page_num, pdfx.img_index))]
       \/ pdfx' = [pdfx EXCEPT !.img_index = @ + 1]
    /\ UNCHANGED <<epub, mdsx, hier, outlineVars, coordVars>>

\* markdown_content.append(text)
PdfPageDone ==
    /\ pdfx.ppc = "pages" /\ pdfx.page_num < Len(pdfx.pages)
    /\ pdfx.img_index = pdfx.pages[pdfx.page_num + 1]
    /\ pdfx' = [pdfx EXCEPT !.page_num = @ + 1, !.img_index = 0, !.text = <<>>,
                   !.markdown_content =
                       Append(@, [kind |-> "page", page |-> pdfx.page_num, refs |-> pdfx.text])]
    /\ UNCHANGED <<epub, mdsx, hier, outlineVars, coordVars>>

\* after the loop: the output file is written and read back, the temporary
\* directory is removed if not save, the upload is scheduled if save and not
\* LOCAL_MODE, and the text is returned
PdfFinish ==
    /\ pdfx.ppc = "pages" /\ pdfx.page_num = Len(pdfx.pages)
    /\ LET written == [pdfx EXCEPT !.output_written = TRUE]
           cleaned == IF ~pdfx.save THEN RemovedTree(written) ELSE written
       IN  pdfx' = [cleaned EXCEPT !.ppc = "returned", !.result = "markdown_text",
                                   !.upload = pdfx.save /\ ~LOCAL_MODE]
    /\ UNCHANGED <<epub, mdsx, hier, outlineVars, coordVars>>

NextPdf ==
    \/ PdfSetup
    \/ PdfMissing
    \/ PdfOpen
    \/ PdfExcept
    \/ PdfImage
    \/ PdfPageDone
    \/ PdfFinish

SpecPdf == InitPdf /\ [][NextPdf]_vars


\* the blocks of pages among markdown_content
PageBlocks == SelectSeq(pdfx.markdown_content, LAMBDA b : b.kind = "page")

\* the references a page's block must carry: one per saved image of the page
\* in ascending image index, named by the page number and the position in
\* the image list, both counted from 1
ExpectedRefs(page_num) ==
    LET RECURSIVE From(_)
        From(k) == IF k >= pdfx.pages[page_num + 1] THEN <<>>
                   ELSE IF <<page_num, k>> \in pdfx.saved
                        THEN <<[n |-> page_num + 1, m |-> k + 1]>> \o From(k + 1)
                        ELSE From(k + 1)
    IN  From(0)

\* C19: the blocks of the pages are one per page in ascending page index,
\* none skipped or reordered; each is the page's text followed by one
\* reference per saved image of the page in ascending image index, named
\* page_<n>_img_<m> with n the page number and m the position in the page's
\* image list, both from 1; a returned text has a block for every page.
C19_OneBlockPerPageInOrder ==
    pdfx.ppc \in {"pages", "returned"} =>
        /\ Len(PageBlocks) = pdfx.page_num
        /\ \A i \in 1 .. Len(PageBlocks) :
              /\ PageBlocks[i].page = i - 1
              /\ PageBlocks[i].refs = ExpectedRefs(i - 1)
        /\ pdfx.result = "markdown_text" => Len(PageBlocks) = Len(pdfx.pages)

\* a returned text of two pages whose second page lost its first image and
\* kept its second, which is named page_2_img_2
C19_Witness ==
    /\ pdfx.ppc = "returned" /\ pdfx.result = "markdown_text"
    /\ Len(pdfx.pages) = 2 /\ pdfx.pages[2] = 2
    /\ <<1, 0>> \notin pdfx.saved
    /\ Len(PageBlocks) = 2
    /\ PageBlocks[2].refs = <<[n |-> 2, m |-> 2]>>

\* C20: when a call with save = False returns, on whichever path, the
\* temporary directory made for it no longer exists.
C20_NoTempResidue ==
    (pdfx.ppc = "returned" /\ ~pdfx.save) => pdfx.temp_dir # "exists"

\* what the code does keep of C20: a call with save = False that returns the
\* text has removed its temporary directory and everything in it
C20_SuccessLeavesNoResidue ==
    (pdfx.ppc = "returned" /\ ~pdfx.save /\ pdfx.result = "markdown_text")
        => (pdfx.temp_dir = "removed" /\ pdfx.files = {} /\ ~pdfx.output_written)


\* the manifest of the archive has no content document
NoContentItem == \A i \in 1 .. Len(epub.manifest) : epub.manifest[i].media # "content"

\* C21: a call on an archive without content items, or on an archive whose
\* container or package document is missing or cannot be parsed, returns the
\* error outcome and has written no Markdown document.
C21_NoContentOrMalformedIsError ==
    (epub.epc = "returned" /\ (NoContentItem \/ epub.error = "malformed"))
        => (epub.result = "None" /\ ~epub.output_written)

\* what the code keeps of C21: a malformed archive returns None with no
\* Markdown document written
C21_MalformedReturnsNone ==
    (epub.epc = "returned" /\ epub.error = "malformed")
        => (epub.result = "None" /\ ~epub.output_written)


\* ---------------------------------------------------------------------------
\* process_markdown_structure and extract_structure_from_markdown
\* (src/md_to_json_structure.py), and the start of the publication runs the
\* conversions create.
\* ---------------------------------------------------------------------------

\* the state of a process_markdown_structure call that has not run yet
MdsStart(save) ==
    [mpc |-> "start", save |-> save, extracted |-> FALSE, json_written |-> FALSE,
     upload |-> "none", error |-> "none", result |-> "pending"]

\* extract_structure_from_markdown: the outline is built and, if save, the
\* publication run is created with asyncio.create_task; an exception is
\* logged and raised again
MdsExtract ==
    /\ mdsx.mpc = "start"
    /\ \/ mdsx' = [mdsx EXCEPT !.mpc = "dump", !.extracted = TRUE,
                      !.upload = IF mdsx.save THEN "scheduled" ELSE "none"]
       \/ mdsx' = [mdsx EXCEPT !.mpc = "returned", !.error = "extract", !.result = "raised"]
    /\ UNCHANGED <<epub, pdfx, hier, outlineVars, coordVars>>

\* json.dumps, then if save the JSON file is written under
\* ./data/<code>/json; an exception is logged and raised again
MdsWrite ==
    /\ mdsx.mpc = "dump"
    /\ \/ mdsx' = [mdsx EXCEPT !.mpc = "returned", !.json_written = mdsx.save,
                      !.result = "json_str"]
       \/ mdsx' = [mdsx EXCEPT !.mpc = "returned", !.error = "write", !.result = "raised"]
    /\ UNCHANGED <<epub, pdfx, hier, outlineVars, coordVars>>

\* the event loop runs the created task: the call is synchronous, so the
\* task's first step comes after the call has returned or raised
MdsRunStarts ==
    /\ mdsx.mpc = "returned" /\ mdsx.upload = "scheduled"
    /\ mdsx' = [mdsx EXCEPT !.upload = "running"]
    /\ UNCHANGED <<epub, pdfx, hier, outlineVars, coordVars>>

NextMds == MdsExtract \/ MdsWrite \/ MdsRunStarts

\* one conversion call: a PDF extraction or a Markdown structure extraction
InitConvert ==
    /\ \/ /\ \E save, exists \in BOOLEAN : \E pages \in Documents :
                pdfx = PdfStart(save, exists, pages)
          /\ mdsx = [mpc |-> "off"]
       \/ /\ pdfx = [ppc |-> "off"]
          /\ \E save \in BOOLEAN : mdsx = MdsStart(save)
    /\ epub = [epc |-> "off"]
    /\ hier = [hpc |-> "off"]
    /\ OutlineOff
    /\ CoordIdle

NextConvert == NextPdf \/ NextMds

SpecConvert == InitConvert /\ [][NextConvert]_vars

\* the publication run of the PDF call has been created
PdfRunStarted == pdfx.ppc # "off" /\ pdfx.upload

\* the publication run of the Markdown structure call is running
MdsRunStarted == mdsx.mpc # "off" /\ mdsx.upload = "running"

\* C22: a publication run is started only for a call with save = true whose
\* extraction succeeded and whose output file has been written locally.
C22_RunOnlyAfterSavedOutput ==
    /\ PdfRunStarted =>
          (pdfx.save /\ pdfx.result = "markdown_text" /\ pdfx.output_written)
    /\ MdsRunStarted =>
          (mdsx.save /\ mdsx.extracted /\ mdsx.json_written)

\* what the code keeps of C22: the PDF reader creates its run only after a
\* successful extraction with save = true has written its Markdown file, and
\* no call with save = false creates a run
C22_PdfRunOnlyAfterSavedOutput ==
    /\ PdfRunStarted =>
          (pdfx.save /\ pdfx.result = "markdown_text" /\ pdfx.output_written)
    /\ (mdsx.mpc # "off" /\ mdsx.upload # "none") => (mdsx.save /\ mdsx.extracted)


\* ---------------------------------------------------------------------------
\* Two publication runs of different task types on one product: the Holder
\* has taken the lock and is about to upload, the Waiter is entering
\* upload_to_oss.
\* ---------------------------------------------------------------------------

Waiter == 1

Holder == 2

InitHandoff ==
    /\ OutlineOff
    /\ ExtractOff
    /\ timeout = DEFAULT_TIMEOUT
    /\ lockTtl = LOCK_EX
    /\ dirExists = TRUE
    /\ ossConfigured = TRUE
    /\ \E tw, th \in {PDF, MDS} :
          /\ tw # th
          /\ ttype = [w \in Workers |-> IF w = Waiter THEN tw ELSE IF w = Holder THEN th ELSE PDF]
          /\ task = [t \in TaskTypes |-> IF t = th THEN TaskRecord(DOING, "") ELSE NotFound]
    /\ pc = [w \in Workers |-> IF w = Waiter THEN "set_doing"
                               ELSE IF w = Holder THEN "upload" ELSE "idle"]
    /\ elapsed = [w \in Workers |-> 0]
    /\ idx = [w \in Workers |-> 1]
    /\ acquired = [w \in Workers |-> IF w = Holder THEN "true" ELSE "none"]
    /\ success = [w \in Workers |-> "none"]
    /\ lockKept = [w \in Workers |-> FALSE]
    /\ outcome = [w \in Workers |-> "none"]

\* the steps of upload_to_oss of one run
RunStep(w) ==
    \/ SetDoing(w)
    \/ CheckDir(w)
    \/ FailNoDir(w)
    \/ Acquire(w)
    \/ WaitLoop(w)
    \/ Check(w)
    \/ FailTimeout(w)
    \/ Upload(w)
    \/ Delete(w)
    \/ SetSuccess(w)
    \/ SetFail(w)
    \/ Release(w)

NextHandoff ==
    \/ RunStep(Waiter)
    \/ RunStep(Holder)
    \/ Tick

\* the event loop resumes both coroutines and time passes
SpecHandoff ==
    /\ InitHandoff
    /\ [][NextHandoff]_vars
    /\ WF_vars(RunStep(Waiter))
    /\ WF_vars(RunStep(Holder))
    /\ WF_vars(Tick)

\* the Waiter's Lock attempt failed, and the Holder has written its terminal
\* status and released the lock while the Waiter's timeout has not elapsed
HandedOver ==
    /\ Waiting(Waiter) /\ acquired[Waiter] = "false"
    /\ WaitLoopCond(elapsed[Waiter], timeout)
    /\ pc[Holder] = "done"
    /\ IsTerminal(task[ttype[Holder]])
    /\ ~LockPresent

\* the Waiter's run has ended with the result of its upload
WaiterUploaded ==
    pc[Waiter] = "done" /\ outcome[Waiter] \in {"upload_ok", "upload_failed"}

\* C23: a run whose Lock attempt failed against a holder of another task
\* type, the holder finishing and releasing before the waiter's timeout,
\* eventually uploads and ends in success or upload failure.
C23_HandoverLeadsToUpload == HandedOver ~> WaiterUploaded

\* what the code does instead: a run whose Lock attempt failed never uploads,
\* its wait lists its own task type, which it has set to doing itself
C23_FailedLockNeverUploads ==
    acquired[Waiter] = "false" =>
        pc[Waiter] \in {"wait_loop", "check", "fail_timeout", "done"}
           /\ outcome[Waiter] \in {"none", "wait_timeout"}


\* worker w takes a step of its wait_for_tasks_completion call
WaitStep(w) == Waiting(w) /\ (pc'[w] # pc[w] \/ idx'[w] # idx[w])

\* C24: no step of wait_for_tasks_completion, whether the call goes on,
\* returns true or returns false, changes the lock key or a Task Record.
C24_WaitWritesNothing ==
    [][\A w \in Workers : WaitStep(w) => (lockTtl' = lockTtl /\ task' = task)]_vars

\* a wait that returned false while another run holds the lock
C24_Witness ==
    \E w \in Workers :
        /\ pc[w] = "fail_timeout" /\ acquired[w] = "false"
        /\ LockPresent
        /\ \E v \in Workers \ {w} : acquired[v] = "true" /\ pc[v] = "upload"

\* a wait that returned true
C24_WitnessTrue ==
    \E w \in Workers : pc[w] = "upload" /\ acquired[w] = "false"


\* the task types check_all_tasks_completed has found terminal so far
CheckedSoFar == {WaitList(ttype[Caller])[i] : i \in 1 .. idx[Caller] - 1}

\* C28: a listed task type without a Task Record reads as not_found and
\* counts as not completed: check_all_tasks_completed does not get past it,
\* and wait_for_tasks_completion has not returned true while a listed task
\* type has no record.
C28_NotFoundIsNotCompleted ==
    /\ pc[Caller] = "check" => \A t \in CheckedSoFar : task[t].status # "not_found"
    /\ pc[Caller] = "upload" => \A t \in Listed : task[t].status # "not_found"

\* a wait that returned false with one listed task type terminal and the
\* other never written
C28_Witness ==
    /\ pc[Caller] = "fail_timeout"
    /\ \E t \in Listed : task[t] = NotFound
    /\ \E t \in Listed : IsTerminal(task[t])


\* C26: a publication run is in the section that uploads, deletes the local
\* files and deletes the lock key only if its own acquire_file_lock returned
\* true, so that the key it deletes is one it set itself.
C26_SectionOnlyWithOwnLock ==
    \A w \in Workers : PastLockPoint(w) => acquired[w] = "true"


\* worker w takes a step of its run from position p
StepFrom(w, p) == pc[w] = p /\ pc'[w] # p

\* C27: a publication run first writes doing for its own task type; when the
\* product directory does not exist it goes on to write fail and return
\* false (through the missing-directory branch, or through the except branch
\* if the uploader cannot be built), and on that path it has not called
\* acquire_file_lock or upload_directory and changes neither the lock key
\* nor the directory.
C27_MissingDirFailsWithoutLock ==
    [][\A w \in Workers :
         /\ StepFrom(w, "set_doing") =>
               (pc'[w] = "check_dir" /\ task'[ttype[w]].status = DOING)
         /\ (StepFrom(w, "check_dir") /\ ~dirExists) =>
               /\ pc'[w] \in {"fail_nodir", "except"}
               /\ lockTtl' = lockTtl /\ task' = task
               /\ acquired'[w] = "none" /\ success'[w] = "none"
         /\ StepFrom(w, "fail_nodir") =>
               /\ pc'[w] = "done"
               /\ task'[ttype[w]].status = FAIL
               /\ outcome'[w] = "no_product_dir"
               /\ lockTtl' = lockTtl /\ dirExists' = dirExists
               /\ acquired'[w] = "none" /\ success'[w] = "none"]_vars

\* a run that returned on the missing-directory branch while another run
\* holds the lock, which is still there
C27_Witness ==
    \E w \in Workers :
        /\ pc[w] = "done" /\ outcome[w] = "no_product_dir"
        /\ acquired[w] = "none" /\ success[w] = "none"
        /\ task[ttype[w]].status = FAIL
        /\ ~dirExists
        /\ LockPresent


\* the nodes whose range, from their heading to the next heading of any
\* level, holds position p
OwnersOf(p) ==
    {k \in 1 .. Len(HeadingPositions) :
        HeadingPositions[k] < p /\ p < NextHeadingPos(k, MAX_HASHES)}

\* the returned outline gives every node the non-heading lines of its range,
\* joined and trimmed, and every non-heading line after the first heading is
\* in the range of exactly one node
ContentPartitionsText ==
    opc = "returned" =>
        /\ Len(nodes) = Len(HeadingPositions)
        /\ \A k \in 1 .. Len(nodes) :
              nodes[k].content =
                  JoinStrip(TextBetween(HeadingPositions[k] + 1,
                                        NextHeadingPos(k, MAX_HASHES) - 1))
        /\ \A p \in 1 .. Len(lines) :
              (NotHeading(lines[p]) /\ Len(HeadingPositions) > 0 /\ p > HeadingPositions[1])
                 => Cardinality(OwnersOf(p)) = 1

\* a step changes the content of a node only if the node is the latest one
\* made and its content was still empty, and the step ends the node's range:
\* it makes the next node or it is the last flush
ContentAssignedOnce ==
    \A k \in 1 .. Len(nodes) :
        nodes'[k].content # nodes[k].content =>
            /\ k = Len(nodes)
            /\ nodes[k].content = <<>>
            /\ Len(nodes') > Len(nodes) \/ opc' = "returned"

\* C25: each emitted node's content is the newline-join, trimmed, of the
\* non-heading lines between its heading and the next heading of any level
\* or the end of the input; every non-heading line after the first heading
\* belongs to exactly one node; a node's content is assigned at most once.
C25_ContentPartition == []ContentPartitionsText /\ [][ContentAssignedOnce]_vars

\* a returned outline of a heading, a blank line, a text line and a
\* sub-heading: the first node has the text without the blank line, the
\* second node has nothing
C25_Witness ==
    /\ opc = "returned"
    /\ Len(lines) = 4 /\ IsBlank(lines[2])
    /\ Len(nodes) = 2 /\ nodes[2].parent = 1
    /\ nodes[1].content = <<[hashes |-> 0, text |-> "a"]>>
    /\ nodes[2].content = <<>>


\* ------------------------------------------------ the three outline builders
\* build_hierarchy (markdown_structure_extractor.py), extract_structure of
\* md_to_json.py and extract_structure of md_to_json_structure.py, applied to
\* one document: build_hierarchy gets the document's headings as (level,
\* title) pairs, the other two get its lines.
MaxHeaders == 3

\* titles: a plain one, one with emphasis marks, one with an exclamation mark
TitleSet == {"a", "*a*", "a!"}

\* '!' in title
HasBang(title) == title = "a!"

\* clean_markdown_format(name), on the titles of TitleSet: the emphasis marks
\* go, [*_]{1,2}(.*?)[*_]{1,2} -> \1; nothing else in them is markup
clean_markdown_format(text) == IF text = "*a*" THEN "a" ELSE text

BuilderLineSet ==
    [hashes : 1 .. MaxLevel, text : TitleSet] \cup {[hashes |-> 0, text |-> "a"]}

\* the (level, title) pairs of the heading lines of a document, in order
Headers(ls) ==
    LET hs == SelectSeq(ls, heading_match)
    IN  [k \in 1 .. Len(hs) |-> [level |-> hs[k].hashes, title |-> hs[k].text]]

\* (a loop that keeps an entry of the same level on the stack)
RECURSIVE PopPairsStrict(_, _)
PopPairsStrict(stack, level) ==
    IF Len(stack) > 1 /\ stack[Len(stack)].level > level
      THEN PopPairsStrict(SubSeq(stack, 1, Len(stack) - 1), level)
      ELSE stack

\* while len(stack) > 1 and stack[-1][1] >= level: stack.pop()
\* the stack holds (node, level) pairs; node is an index, 0 for the root
RECURSIVE PopPairs(_, _)
PopPairs(stack, level) ==
    IF Len(stack) > 1 /\ stack[Len(stack)].level >= level
      THEN PopPairs(SubSeq(stack, 1, Len(stack) - 1), level)
      ELSE stack

\* build_hierarchy after the first n headers: the nodes made, each with the
\* index of the node it was appended to, and the stack
RECURSIVE build_hierarchy_after(_, _)
build_hierarchy_after(headers, n) ==
    IF n = 0
      THEN [nodes |-> <<>>, stack |-> <<[node |-> 0, level |-> 0]>>]
      ELSE LET st == build_hierarchy_after(headers, n - 1)
               h == headers[n]
               popped == PopPairs(st.stack, h.level)
           IN  IF HasBang(h.title)
                 THEN st
                 ELSE [nodes |-> Append(st.nodes,
                                   [title |-> h.title, level |-> h.level,
                                    parent |-> popped[Len(popped)].node]),
                       stack |-> Append(popped,
                                   [node |-> Len(st.nodes) + 1, level |-> h.level])]

\* build_hierarchy(headers): the nodes under the returned root
build_hierarchy(headers) == build_hierarchy_after(headers, Len(headers)).nodes

\* node_stack[-1]["level"] of md_to_json.extract_structure
NameLevelOf(ns, i) == IF i = 0 THEN 0 ELSE ns[i].level

\* while len(node_stack) > 1 and node_stack[-1]["level"] >= level: node_stack.pop()
RECURSIVE PopNames(_, _, _)
PopNames(ns, stack, level) ==
    IF Len(stack) > 1 /\ NameLevelOf(ns, stack[Len(stack)]) >= level
      THEN PopNames(ns, SubSeq(stack, 1, Len(stack) - 1), level)
      ELSE stack

\* md_to_json.extract_structure after the first n lines
RECURSIVE md_to_json_after(_, _)
md_to_json_after(ls, n) ==
    IF n = 0
      THEN [nodes |-> <<>>, node_stack |-> <<0>>]
      ELSE LET st == md_to_json_after(ls, n - 1)
               line == ls[n]
               popped == PopNames(st.nodes, st.node_stack, line.hashes)
           IN  IF ~heading_match(line)
                 THEN st
                 ELSE [nodes |-> Append(st.nodes,
                                   [name |-> clean_markdown_format(line.text),
                                    level |-> line.hashes,
                                    parent |-> popped[Len(popped)]]),
                       node_stack |-> Append(popped, Len(st.nodes) + 1)]

\* md_to_json.extract_structure(): root["children"]
md_to_json_extract_structure(ls) == md_to_json_after(ls, Len(ls)).nodes

InitBuilders ==
    /\ lines \in UNION {[1 .. n -> BuilderLineSet] : n \in 1 .. MaxHeaders}
    /\ pos = 1
    /\ nodes = <<>>
    /\ node_stack = <<0>>
    /\ current_content = <<>>
    /\ rootContent = <<>>
    /\ opc = "loop"
    /\ hier = [hpc |-> "on", headers |-> Headers(lines),
               hasRoot |-> FALSE, root |-> <<>>,
               hasForest |-> FALSE, forest |-> <<>>]
    /\ epub = [epc |-> "off"]
    /\ pdfx = [ppc |-> "off"]
    /\ mdsx = [mpc |-> "off"]
    /\ CoordIdle

\* root = build_hierarchy(headers)
BuildHierarchy ==
    /\ hier.hpc = "on" /\ ~hier.hasRoot
    /\ hier' = [hier EXCEPT !.hasRoot = TRUE, !.root = build_hierarchy(hier.headers)]
    /\ UNCHANGED <<epub, pdfx, mdsx, outlineVars, coordVars>>

\* structure = MarkdownStructureExtractor(content).extract_structure(), md_to_json
MdToJson ==
    /\ hier.hpc = "on" /\ ~hier.hasForest
    /\ hier' = [hier EXCEPT !.hasForest = TRUE,
                            !.forest = md_to_json_extract_structure(lines)]
    /\ UNCHANGED <<epub, pdfx, mdsx, outlineVars, coordVars>>

NextBuilders == NextOutline \/ BuildHierarchy \/ MdToJson

SpecBuilders == InitBuilders /\ [][NextBuilders]_vars

\* the three builders have returned
AllBuilt == opc = "returned" /\ hier.hpc = "on" /\ hier.hasRoot /\ hier.hasForest

\* no title of the heading sequence contains '!'
NoBang == \A k \in 1 .. Len(hier.headers) : ~HasBang(hier.headers[k].title)

\* a forest as the level and the parent of each node, in the order made
Shape(ns) == [k \in 1 .. Len(ns) |-> [level |-> ns[k].level, parent |-> ns[k].parent]]

\* C29: for a heading sequence whose titles contain no '!', build_hierarchy,
\* md_to_json.extract_structure and md_to_json_structure.extract_structure
\* build forests of the same shape, with the headings in the same order and
\* at the same levels.
C29_SameForest ==
    (AllBuilt /\ NoBang) =>
        /\ Shape(hier.root) = Shape(hier.forest)
        /\ Shape(hier.forest) = Shape(nodes)
        /\ Len(nodes) = Len(hier.headers)
        /\ \A k \in 1 .. Len(nodes) :
              /\ nodes[k].level = hier.headers[k].level
              /\ nodes[k].title = hier.headers[k].title
              /\ hier.root[k].title = hier.headers[k].title
              /\ hier.forest[k].name = clean_markdown_format(hier.headers[k].title)

\* three headings at levels 1, 2, 1, one of them with emphasis marks: the
\* second is under the first, the third is a new top-level node
C29_Witness ==
    /\ AllBuilt /\ NoBang
    /\ Len(nodes) = 3
    /\ Shape(nodes) = <<[level |-> 1, parent |-> 0], [level |-> 2, parent |-> 1],
                        [level |-> 1, parent |-> 0]>>
    /\ nodes[2].title = "*a*" /\ hier.forest[2].name = "a"

\* a title with '!': build_hierarchy leaves the heading out, the other two keep it
C29_WitnessBang ==
    /\ AllBuilt /\ ~NoBang
    /\ Len(hier.root) < Len(nodes) /\ Len(hier.forest) = Len(nodes)


\* the greatest index among the children of node i of the outline builder
LastChild(i) == CHOOSE j \in Children(i) : \A m \in Children(i) : m <= j

\* node_stack of extract_structure: not empty, the root at the bottom, levels
\* strictly increasing upwards, every node the last child of the one below
NodeStackOrdered ==
    /\ Len(node_stack) >= 1
    /\ node_stack[1] = 0
    /\ \A i \in 2 .. Len(node_stack) :
          /\ LevelOf(node_stack[i - 1]) < LevelOf(node_stack[i])
          /\ nodes[node_stack[i]].parent = node_stack[i - 1]
          /\ LastChild(node_stack[i - 1]) = node_stack[i]

\* the same of a build_hierarchy state: the stack's (node, level) pairs
PairStackOrdered(st) ==
    /\ Len(st.stack) >= 1
    /\ st.stack[1] = [node |-> 0, level |-> 0]
    /\ \A i \in 2 .. Len(st.stack) :
          /\ st.stack[i - 1].level < st.stack[i].level
          /\ st.nodes[st.stack[i].node].level = st.stack[i].level
          /\ st.nodes[st.stack[i].node].parent = st.stack[i - 1].node
          /\ \A m \in 1 .. Len(st.nodes) :
                st.nodes[m].parent = st.stack[i - 1].node => m <= st.stack[i].node

\* C30: after every processed line of the outline builder the node stack is
\* not empty, its bottom element is the level-0 root, the levels strictly
\* increase from bottom to top, and every element above the root is the last
\* child of the element directly below it; the same holds of build_hierarchy
\* after every header.
C30_StackInvariant ==
    /\ opc # "off" => NodeStackOrdered
    /\ hier.hpc = "on" =>
          \A n \in 0 .. Len(hier.headers) :
              PairStackOrdered(build_hierarchy_after(hier.headers, n))

\* three lines processed, headings of levels 2, 3, 1: the third heading has
\* popped the first two and is alone above the root
C30_Witness ==
    /\ opc = "loop" /\ pos = 4
    /\ Len(nodes) = 3 /\ Len(hier.headers) = 3
    /\ nodes[1].level = 2 /\ nodes[2].level = 3 /\ nodes[3].level = 1
    /\ node_stack = <<0, 3>>
    /\ build_hierarchy_after(hier.headers, 3).stack =
          <<[node |-> 0, level |-> 0], [node |-> 3, level |-> 1]>>

\* three nested headings: the stack holds the root and all three
C30_WitnessDeep ==
    /\ opc = "loop" /\ pos = 4
    /\ node_stack = <<0, 1, 2, 3>>
    /\ Len(hier.headers) = 3
    /\ Len(build_hierarchy_after(hier.headers, 3).stack) = 4

====
